---- MODULE Spec2Model ----
(***************************************************************************)
(* Model of impsort.py: the ImpSorter visitor (collect), new_nodes and     *)
(* _node_sort_key (sort keys), and write_sorted (sort and render), driven  *)
(* by main().                                                              *)
(*                                                                         *)
(* Python strings are sequences of code points, so that str.split,         *)
(* str.format, str.join and the lexicographic order of str are computed    *)
(* and not assumed.  An optional value is None (the empty tuple) or        *)
(* Some(v) (the one-element tuple).  Comparisons follow Python 3: ordering *)
(* None against a str, or two AST nodes, raises TypeError ("err").         *)
(***************************************************************************)
EXTENDS Integers, Sequences, FiniteSets, TLC

\* Longest input module (number of statement nodes in the tree).
MaxStmts == 3

----------------------------------------------------------------------------
\* Optional values

None == <<>>
Some(v) == <<v>>

----------------------------------------------------------------------------
\* String literals used by the program and by the inputs

s_os == <<111, 115>>                                      \* "os"
s_os_path == <<111, 115, 46, 112, 97, 116, 104>>          \* "os.path"
s_sys == <<115, 121, 115>>                                \* "sys"
s_requests == <<114, 101, 113, 117, 101, 115, 116, 115>>  \* "requests"
s_foo == <<102, 111, 111>>                                \* "foo"
s_locked == <<108, 111, 99, 107, 101, 100>>               \* "locked"
s_future == <<95, 95, 102, 117, 116, 117, 114, 101, 95, 95>>  \* "__future__"
s_path == <<112, 97, 116, 104>>                           \* "path"
s_getcwd == <<103, 101, 116, 99, 119, 100>>               \* "getcwd"
s_utils == <<117, 116, 105, 108, 115>>                    \* "utils"
s_models == <<109, 111, 100, 101, 108, 115>>              \* "models"
s_User == <<85, 115, 101, 114>>                           \* "User"
s_division == <<100, 105, 118, 105, 115, 105, 111, 110>>  \* "division"
s_sep == <<115, 101, 112>>                                \* "sep"
s_x == <<120>>                                            \* "x"
s_y == <<121>>                                            \* "y"
s_import == <<105, 109, 112, 111, 114, 116>>              \* "import"
s_from == <<102, 114, 111, 109>>                          \* "from"
s_as == <<97, 115>>                                       \* "as"
s_None == <<78, 111, 110, 101>>                           \* "None"
s_dot == <<46>>                                           \* "."
s_space == <<32>>                                         \* " "
s_comma == <<44>>                                         \* ","

----------------------------------------------------------------------------
\* The environment of a run

\* self.stdlibs: the names the standard-library enumeration yields here.
stdlibs == {s_os, s_sys}

\* Modules imp.find_module locates on self.python_paths.
OnPath == {s_requests}

\* Modules whose file is on the path but cannot be opened: imp.find_module
\* raises OSError (PermissionError) for them instead of ImportError.
Unreadable == {s_locked}

\* imp.find_module(modname, self.python_paths): "found", or the exception.
find_module(modname) ==
  IF modname \in OnPath THEN "found"
  ELSE IF modname \in Unreadable THEN "OSError"
  ELSE "ImportError"

----------------------------------------------------------------------------
\* Python 3 comparisons: "lt", "eq", "gt", or "err" (TypeError)

RECURSIVE CmpStr(_, _)
CmpStr(a, b) ==
  IF a = <<>> THEN (IF b = <<>> THEN "eq" ELSE "lt")
  ELSE IF b = <<>> THEN "gt"
  ELSE IF a[1] < b[1] THEN "lt"
  ELSE IF a[1] > b[1] THEN "gt"
  ELSE CmpStr(Tail(a), Tail(b))

\* str or None against str or None
CmpOptStr(a, b) ==
  IF a = b THEN "eq"
  ELSE IF a = None \/ b = None THEN "err"
  ELSE CmpStr(a[1], b[1])

\* list of (str or None): the first differing element decides, else length
RECURSIVE CmpOptList(_, _)
CmpOptList(a, b) ==
  IF a = <<>> THEN (IF b = <<>> THEN "eq" ELSE "lt")
  ELSE IF b = <<>> THEN "gt"
  ELSE IF a[1] = b[1] THEN CmpOptList(Tail(a), Tail(b))
  ELSE CmpOptStr(a[1], b[1])

\* list of str
RECURSIVE CmpStrList(_, _)
CmpStrList(a, b) ==
  IF a = <<>> THEN (IF b = <<>> THEN "eq" ELSE "lt")
  ELSE IF b = <<>> THEN "gt"
  ELSE IF a[1] = b[1] THEN CmpStrList(Tail(a), Tail(b))
  ELSE CmpStr(a[1], b[1])

\* from_names: None or a list of str
CmpFromNames(a, b) ==
  IF a = b THEN "eq"
  ELSE IF a = None \/ b = None THEN "err"
  ELSE CmpStrList(a[1], b[1])

CmpInt(a, b) == IF a < b THEN "lt" ELSE IF a > b THEN "gt" ELSE "eq"

\* (name, asname) tuples, as sorted(names) compares them
CmpPair(p, q) ==
  IF p[1] # q[1] THEN CmpStr(p[1], q[1]) ELSE CmpOptStr(p[2], q[2])

\* the 6-tuples _node_sort_key returns
CmpKey(k1, k2) ==
  IF k1[1] # k2[1] THEN CmpInt(k1[1], k2[1])
  ELSE IF k1[2] # k2[2] THEN CmpInt(k1[2], k2[2])
  ELSE IF k1[3] # k2[3] THEN CmpInt(k1[3], k2[3])
  ELSE IF k1[4] # k2[4] THEN CmpInt(k1[4], k2[4])
  ELSE IF k1[5] # k2[5] THEN CmpOptList(k1[5], k2[5])
  ELSE CmpFromNames(k1[6], k2[6])

\* (key, node) tuples, as sorted(self.new_nodes()) compares them: on equal
\* keys the nodes are compared, and AST nodes define no ordering.
CmpEntry(e1, e2) ==
  IF e1[1] # e2[1] THEN CmpKey(e1[1], e2[1])
  ELSE IF e1[2] = e2[2] THEN "eq"
  ELSE "err"

\* sorted(names): raises TypeError iff two elements do not compare
SortNamesRaises(S) == \E p, q \in S : CmpPair(p, q) = "err"

RECURSIVE SortedNames(_)
SortedNames(S) ==
  IF S = {} THEN <<>>
  ELSE LET m == CHOOSE p \in S : \A q \in S \ {p} : CmpPair(p, q) = "lt"
       IN  <<m>> \o SortedNames(S \ {m})

\* sorted(self.new_nodes())
SortEntriesRaises(S) == \E e1, e2 \in S : CmpEntry(e1, e2) = "err"

RECURSIVE SortedEntries(_)
SortedEntries(S) ==
  IF S = {} THEN <<>>
  ELSE LET m == CHOOSE e \in S : \A f \in S \ {e} : CmpEntry(e, f) = "lt"
       IN  <<m>> \o SortedEntries(S \ {m})

----------------------------------------------------------------------------
\* AST nodes

Alias(nm, asnm) == [name |-> nm, asname |-> asnm]

\* ast.Import(names=...) and ast.ImportFrom(module=, names=, level=) as
\* new_nodes builds them
ImportNode(names) ==
  [type |-> "Import", names |-> names, module |-> None, level |-> 0]
ImportFromNode(module, names, level) ==
  [type |-> "ImportFrom", names |-> names, module |-> module, level |-> level]

\* A statement node of the parsed tree.  depth is 0 for a direct child of the
\* Module root and 1 for a statement in the body of a compound statement;
\* col_offset is the column of its first token on its physical line.
Stmt(type, names, module, level, depth, col) ==
  [type |-> type, names |-> names, module |-> module, level |-> level,
   depth |-> depth, col_offset |-> col]

\* The (name, asname) tuples of a statement's aliases
NamePairs(names) == {<<names[i].name, names[i].asname>> : i \in DOMAIN names}

----------------------------------------------------------------------------
\* _node_sort_key

\* s.split('.')[0]
RECURSIVE FirstSegment(_)
FirstSegment(s) ==
  IF s = <<>> \/ s[1] = 46 THEN <<>>
  ELSE <<s[1]>> \o FirstSegment(Tail(s))

\* is_thirdparty: ImportError is caught and gives False; any other exception
\* of the probe leaves the method.
is_thirdparty_raises(modname) ==
  IF find_module(modname) \in {"found", "ImportError"} THEN ""
  ELSE find_module(modname)

is_thirdparty(modname) == find_module(modname) = "found"

\* name[0] of _node_sort_key
KeyName0(node) ==
  IF node.type = "Import" THEN Some(node.names[1].name) ELSE node.module

\* The exception _node_sort_key(node) raises, "" when it returns
KeyRaises(node) ==
  IF node.type \notin {"Import", "ImportFrom"} THEN "TypeError"
  ELSE IF KeyName0(node) = None THEN "AttributeError"
  ELSE LET modname == FirstSegment(KeyName0(node)[1])
       IN  IF modname = s_future \/ modname \in stdlibs THEN ""
           ELSE is_thirdparty_raises(modname)

\* The tuple _node_sort_key(node) returns
NodeSortKey(node) ==
  LET name == IF node.type = "Import"
              THEN <<Some(node.names[1].name), node.names[1].asname>>
              ELSE <<node.module>>
      from_names == IF node.type = "Import" THEN None
                    ELSE Some([i \in DOMAIN node.names |-> node.names[i].name])
      fromimport == IF node.type = "Import" THEN 0 ELSE 1
      modname == FirstSegment(name[1][1])
      future == IF modname = s_future THEN 0 ELSE 1
      stdlib == IF modname # s_future /\ modname \in stdlibs THEN 0 ELSE 1
      thirdparty == IF /\ modname # s_future
                       /\ modname \notin stdlibs
                       /\ is_thirdparty(modname)
                    THEN 0 ELSE 1
  IN  <<future, stdlib, thirdparty, fromimport, name, from_names>>

----------------------------------------------------------------------------
\* new_nodes

\* The nodes of the first loop for one (level, module) key: one ImportFrom
\* node per (name, asname) of sorted(names)
FromNodesOf(k, names) ==
  LET sn == SortedNames(names)
  IN  {ImportFromNode(k[2], <<Alias(sn[i][1], sn[i][2])>>, k[1]) : i \in DOMAIN sn}

FromNodes(fi) == UNION {FromNodesOf(k, fi[k]) : k \in DOMAIN fi}

\* The nodes of the second loop
ImportNodes(imps) == {ImportNode(<<Alias(p[1], p[2])>>) : p \in imps}

\* What the first loop raises at key k: sorted(names) comes first, then the
\* key of the nodes (they share the module, so they raise alike)
FromKeyRaises(k, names) ==
  IF SortNamesRaises(names) THEN "TypeError"
  ELSE KeyRaises(ImportFromNode(k[2], <<>>, k[1]))

\* The exceptions new_nodes can end with (the iteration order of the dict and
\* of the set decides which one); empty when it returns.  The loop over
\* from_imports runs before the loop over imports.
NewNodesExcs(fi, imps) ==
  LET fromExcs == {FromKeyRaises(k, fi[k]) : k \in DOMAIN fi} \ {""}
      impExcs == {KeyRaises(n) : n \in ImportNodes(imps)} \ {""}
  IN  IF fromExcs # {} THEN fromExcs ELSE impExcs

\* The list new_nodes returns, as the set of its (key, node) tuples: sorted()
\* yields the same result for every order of the list.
NewNodesOf(fi, imps) ==
  {<<NodeSortKey(n), n>> : n \in FromNodes(fi) \cup ImportNodes(imps)}

----------------------------------------------------------------------------
\* write_sorted: rendering

RECURSIVE Join(_, _)
Join(sep, strs) ==
  IF strs = <<>> THEN <<>>
  ELSE IF Len(strs) = 1 THEN strs[1]
  ELSE strs[1] \o sep \o Join(sep, Tail(strs))

\* '.' * level
RECURSIVE Dots(_)
Dots(level) == IF level <= 0 THEN <<>> ELSE s_dot \o Dots(level - 1)

\* '{0}'.format(v) of a str or None
Format(v) == IF v = None THEN s_None ELSE v[1]

\* a value is truthy unless it is None or ''
Truthy(v) == v # None /\ v[1] # <<>>

Unwrap(v) == v[1]

\* Variant of RenderAlias: the tuple is (name.asname, name.name)
RenderAlias_swapped(a) ==
  LET parts == SelectSeq(<<a.asname, Some(a.name)>>, Truthy)
  IN  Join(s_space \o s_as \o s_space,
           [i \in DOMAIN parts |-> Unwrap(parts[i])])

\* ' as '.join(nm for nm in (name.name, name.asname) if nm)
RenderAlias(a) ==
  LET parts == SelectSeq(<<Some(a.name), a.asname>>, Truthy)
  IN  Join(s_space \o s_as \o s_space,
           [i \in DOMAIN parts |-> Unwrap(parts[i])])

\* all_names
AllNames(node) ==
  Join(s_comma \o s_space, [i \in DOMAIN node.names |-> RenderAlias(node.names[i])])

\* The line printed for a node
RenderNode(node) ==
  IF node.type = "Import"
  THEN s_import \o s_space \o AllNames(node)
  ELSE s_from \o s_space \o Dots(node.level) \o Format(node.module)
       \o s_space \o s_import \o s_space \o AllNames(node)

\* Variant of KeyPrefix: key[:2]
KeyPrefix_two(key) == SubSeq(key, 1, 2)

\* key[:3]
KeyPrefix(key) == SubSeq(key, 1, 3)

----------------------------------------------------------------------------
\* ast.parse of a rendered import block (main() run on the program's output)

\* s.split(c)
RECURSIVE SplitOn(_, _)
SplitOn(s, c) ==
  IF s = <<>> THEN <<<<>>>>
  ELSE LET rest == SplitOn(Tail(s), c)
       IN  IF s[1] = c THEN <<<<>>>> \o rest
           ELSE <<<<s[1]>> \o rest[1]>> \o Tail(rest)

Keywords == {s_import, s_from, s_as, s_None}

IsIdentChar(c) ==
  \/ c \in 97..122
  \/ c \in 65..90
  \/ c \in 48..57
  \/ c = 95

IsIdentifier(s) ==
  /\ s # <<>>
  /\ \A i \in DOMAIN s : IsIdentChar(s[i])
  /\ s[1] \notin 48..57
  /\ s \notin Keywords

IsDottedName(s) ==
  LET segs == SplitOn(s, 46) IN \A i \in DOMAIN segs : IsIdentifier(segs[i])

EndsWithComma(t) == t # <<>> /\ t[Len(t)] = 44
StripComma(t) == SubSeq(t, 1, Len(t) - 1)

\* An alias list that does not parse
BadAliases == <<Alias(<<>>, None)>>

\* NAME ['as' NAME] (',' NAME ['as' NAME])*, from the space-separated tokens
RECURSIVE ParseAliases(_)
ParseAliases(toks) ==
  IF toks = <<>> THEN BadAliases
  ELSE IF EndsWithComma(toks[1])
       THEN <<Alias(StripComma(toks[1]), None)>> \o ParseAliases(Tail(toks))
  ELSE IF Len(toks) = 1 THEN <<Alias(toks[1], None)>>
  ELSE IF Len(toks) >= 3 /\ toks[2] = s_as
       THEN IF EndsWithComma(toks[3])
            THEN <<Alias(toks[1], Some(StripComma(toks[3])))>>
                 \o ParseAliases(SubSeq(toks, 4, Len(toks)))
            ELSE IF Len(toks) = 3 THEN <<Alias(toks[1], Some(toks[3]))>>
            ELSE BadAliases
  ELSE BadAliases

\* Number of leading '.' of a token
RECURSIVE LeadingDots(_)
LeadingDots(t) ==
  IF t = <<>> \/ t[1] # 46 THEN 0 ELSE 1 + LeadingDots(Tail(t))

\* The statement node of one unindented line
ParseLine(line) ==
  LET toks == SplitOn(line, 32)
  IN  IF Len(toks) >= 2 /\ toks[1] = s_import
      THEN Stmt("Import", ParseAliases(Tail(toks)), None, 0, 0, 0)
      ELSE IF Len(toks) >= 4 /\ toks[1] = s_from /\ toks[3] = s_import
      THEN LET level == LeadingDots(toks[2])
               rest == SubSeq(toks[2], level + 1, Len(toks[2]))
           IN  Stmt("ImportFrom", ParseAliases(SubSeq(toks, 4, Len(toks))),
                    IF rest = <<>> THEN None ELSE Some(rest), level, 0, 0)
      ELSE Stmt("SyntaxError", <<>>, None, 0, 0, 0)

\* Whether a parsed line is a valid statement
StmtOK(st) ==
  /\ st.type \in {"Import", "ImportFrom"}
  /\ \A i \in DOMAIN st.names :
        /\ IF st.type = "Import" THEN IsDottedName(st.names[i].name)
           ELSE IsIdentifier(st.names[i].name)
        /\ st.names[i].asname # None => IsIdentifier(st.names[i].asname[1])
  /\ st.type = "ImportFrom" =>
        /\ st.module # None => IsDottedName(st.module[1])
        /\ st.module = None => st.level > 0

NonBlank(line) == line # <<>>

\* The body of the Module node ast.parse returns for the lines
ParseModule(lines) ==
  LET used == SelectSeq(lines, NonBlank)
  IN  [i \in DOMAIN used |-> ParseLine(used[i])]

\* Whether ast.parse accepts the lines
ModuleSyntaxOK(lines) ==
  \A i \in DOMAIN lines : NonBlank(lines[i]) => StmtOK(ParseLine(lines[i]))

----------------------------------------------------------------------------
\* Inputs

\* The statements an input module is made of
Statements ==
  { Stmt("Import", <<Alias(s_os, None)>>, None, 0, 0, 0),
      \* import os
    Stmt("Import", <<Alias(s_os, Some(s_x))>>, None, 0, 0, 0),
      \* import os as x
    Stmt("Import", <<Alias(s_sys, None), Alias(s_requests, None)>>, None, 0, 0, 0),
      \* import sys, requests
    Stmt("Import", <<Alias(s_locked, None)>>, None, 0, 0, 0),
      \* import locked
    Stmt("ImportFrom", <<Alias(s_path, None)>>, Some(s_os), 0, 0, 0),
      \* from os import path
    Stmt("ImportFrom", <<Alias(s_getcwd, None), Alias(s_path, None)>>, Some(s_os), 0, 0, 0),
      \* from os import getcwd, path
    Stmt("ImportFrom", <<Alias(s_path, None)>>, Some(s_os), 1, 0, 0),
      \* from .os import path
    Stmt("ImportFrom", <<Alias(s_path, None)>>, Some(s_os), 2, 0, 0),
      \* from ..os import path
    Stmt("ImportFrom", <<Alias(s_utils, None)>>, None, 1, 0, 0),
      \* from . import utils
    Stmt("ImportFrom", <<Alias(s_User, None)>>, Some(s_models), 1, 0, 0),
      \* from .models import User
    Stmt("ImportFrom", <<Alias(s_division, None)>>, Some(s_future), 0, 0, 0),
      \* from __future__ import division
    Stmt("ImportFrom", <<Alias(s_x, Some(s_y))>>, Some(s_foo), 0, 0, 0),
      \* from foo import x as y
    Stmt("ImportFrom", <<Alias(s_sep, None)>>, Some(s_os_path), 0, 0, 0),
      \* from os.path import sep
    Stmt("Other", <<>>, None, 0, 0, 0),
      \* x = 1
    Stmt("Import", <<Alias(s_sys, None)>>, None, 0, 0, 7),
      \* import sys    (at the root, after "x = 1; " on the same line)
    Stmt("Import", <<Alias(s_foo, None)>>, None, 0, 1, 4),
      \* import foo    (indented, in the body of a def)
    Stmt("ImportFrom", <<Alias(s_sep, None)>>, Some(s_os), 0, 1, 0)
      \* from os import sep    (in the body of "if True: \", on the
      \* continuation line, at column 0)
  }

\* The trees ast.parse can return: at most MaxStmts statement nodes, in the
\* order NodeVisitor reaches them
Trees == UNION {[1..n -> Statements] : n \in 0..MaxStmts}

----------------------------------------------------------------------------
\* State

VARIABLES
  source_ok,       \* whether the text of infile is valid Python
  tree,            \* the statement nodes of ast.parse(infile.read())
  run,             \* 1: the run on the input; 2: the run on the first output
  pc,              \* position in main(): parse, visit, sort, write, done, aborted
  exc,             \* the exception that ended the run, "" if none
  idx,             \* the next node i.visit(tree) reaches
  original_nodes,  \* self.original_nodes
  imports,         \* self.imports
  from_imports,    \* self.from_imports
  nodes,           \* the list self.new_nodes() returned
  sorted_nodes,    \* sorted(self.new_nodes())
  pos,             \* the next element of the loop of write_sorted
  pkey,            \* pkey of write_sorted
  out,             \* the lines written to outfile
  first_out        \* the lines the first run wrote, input of the second run

vars == <<source_ok, tree, run, pc, exc, idx, original_nodes, imports,
          from_imports, nodes, sorted_nodes, pos, pkey, out, first_out>>

\* defaultdict(set) with no key
EmptyDict == [k \in {} |-> {}]

Init ==
  /\ source_ok \in BOOLEAN
  /\ tree \in (IF source_ok THEN Trees ELSE {<<>>})
  /\ run = 1
  /\ pc = "parse"
  /\ exc = ""
  /\ idx = 1
  /\ original_nodes = <<>>
  /\ imports = {}
  /\ from_imports = EmptyDict
  /\ nodes = {}
  /\ sorted_nodes = <<>>
  /\ pos = 1
  /\ pkey = None
  /\ out = <<>>
  /\ first_out = <<>>

\* An exception leaves main(): the run ends
Raise(e) ==
  /\ pc' = "aborted"
  /\ exc' = e

\* main: tree = ast.parse(infile.read()); i = ImpSorter()
Parse ==
  /\ pc = "parse"
  /\ LET ok == IF run = 1 THEN source_ok ELSE ModuleSyntaxOK(first_out)
     IN  IF ok
         THEN /\ tree' = (IF run = 1 THEN tree ELSE ParseModule(first_out))
              /\ pc' = "visit"
              /\ idx' = 1
              /\ original_nodes' = <<>>
              /\ imports' = {}
              /\ from_imports' = EmptyDict
              /\ UNCHANGED exc
         ELSE /\ Raise("SyntaxError")
              /\ UNCHANGED <<tree, idx, original_nodes, imports, from_imports>>
  /\ UNCHANGED <<source_ok, run, nodes, sorted_nodes, pos, pkey, out, first_out>>

\* self.imports.update((nm.name, nm.asname) for nm in node.names)
UpdateImports(imps, node) == imps \cup NamePairs(node.names)

\* Variant of UpdateFromImports: the set of the key is assigned, not updated
UpdateFromImports_assign(fi, node) ==
  LET k == <<node.level, node.module>>
  IN  [kk \in DOMAIN fi \cup {k} |->
         IF kk = k THEN NamePairs(node.names) ELSE fi[kk]]

\* self.from_imports[(node.level, node.module)].update(...)
UpdateFromImports(fi, node) ==
  LET k == <<node.level, node.module>>
  IN  [kk \in DOMAIN fi \cup {k} |->
         (IF kk \in DOMAIN fi THEN fi[kk] ELSE {})
         \cup (IF kk = k THEN NamePairs(node.names) ELSE {})]

\* visit_Import
VisitImport ==
  /\ pc = "visit"
  /\ idx <= Len(tree)
  /\ tree[idx].type = "Import"
  /\ IF tree[idx].col_offset # 0
     THEN UNCHANGED <<imports, original_nodes>>
     ELSE /\ imports' = UpdateImports(imports, tree[idx])
          /\ original_nodes' = Append(original_nodes, tree[idx])
  /\ idx' = idx + 1
  /\ UNCHANGED <<source_ok, tree, run, pc, exc, from_imports, nodes,
                 sorted_nodes, pos, pkey, out, first_out>>

\* visit_ImportFrom
VisitImportFrom ==
  /\ pc = "visit"
  /\ idx <= Len(tree)
  /\ tree[idx].type = "ImportFrom"
  /\ IF tree[idx].col_offset # 0
     THEN UNCHANGED <<from_imports, original_nodes>>
     ELSE /\ from_imports' = UpdateFromImports(from_imports, tree[idx])
          /\ original_nodes' = Append(original_nodes, tree[idx])
  /\ idx' = idx + 1
  /\ UNCHANGED <<source_ok, tree, run, pc, exc, imports, nodes,
                 sorted_nodes, pos, pkey, out, first_out>>

\* NodeVisitor.generic_visit of any other statement: no visitor method
VisitOther ==
  /\ pc = "visit"
  /\ idx <= Len(tree)
  /\ tree[idx].type \notin {"Import", "ImportFrom"}
  /\ idx' = idx + 1
  /\ UNCHANGED <<source_ok, tree, run, pc, exc, original_nodes, imports,
                 from_imports, nodes, sorted_nodes, pos, pkey, out, first_out>>

\* write_sorted: pkey = None; self.new_nodes()
NewNodes ==
  /\ pc = "visit"
  /\ idx > Len(tree)
  /\ pkey' = None
  /\ IF NewNodesExcs(from_imports, imports) # {}
     THEN /\ \E e \in NewNodesExcs(from_imports, imports) : Raise(e)
          /\ UNCHANGED nodes
     ELSE /\ nodes' = NewNodesOf(from_imports, imports)
          /\ pc' = "sort"
          /\ UNCHANGED exc
  /\ UNCHANGED <<source_ok, tree, run, idx, original_nodes, imports,
                 from_imports, sorted_nodes, pos, out, first_out>>

\* Variant of SortNodes: a lazy sort that has handed over and printed an
\* element before the comparison that raises
SortNodes_lazy ==
  /\ pc = "sort"
  /\ IF SortEntriesRaises(nodes)
     THEN /\ Raise("TypeError")
          /\ out' = out \o <<RenderNode((CHOOSE e \in nodes : TRUE)[2])>>
          /\ UNCHANGED <<sorted_nodes, pos>>
     ELSE /\ sorted_nodes' = SortedEntries(nodes)
          /\ pos' = 1
          /\ pc' = "write"
          /\ UNCHANGED <<exc, out>>
  /\ UNCHANGED <<source_ok, tree, run, idx, original_nodes, imports,
                 from_imports, nodes, pkey, first_out>>

\* write_sorted: sorted(...)
SortNodes ==
  /\ pc = "sort"
  /\ IF SortEntriesRaises(nodes)
     THEN /\ Raise("TypeError")
          /\ UNCHANGED <<sorted_nodes, pos>>
     ELSE /\ sorted_nodes' = SortedEntries(nodes)
          /\ pos' = 1
          /\ pc' = "write"
          /\ UNCHANGED exc
  /\ UNCHANGED <<source_ok, tree, run, idx, original_nodes, imports,
                 from_imports, nodes, pkey, out, first_out>>

\* The lines one iteration of the loop of write_sorted prints
LinesFor(pk, key, node) ==
  (IF pk # None /\ KeyPrefix(key) # KeyPrefix(pk[1]) THEN <<<<>>>> ELSE <<>>)
  \o <<RenderNode(node)>>

\* write_sorted: one iteration of the loop
WriteLine ==
  /\ pc = "write"
  /\ pos <= Len(sorted_nodes)
  /\ LET key == sorted_nodes[pos][1]
         node == sorted_nodes[pos][2]
     IN  /\ out' = out \o LinesFor(pkey, key, node)
         /\ pkey' = Some(key)
  /\ pos' = pos + 1
  /\ UNCHANGED <<source_ok, tree, run, pc, exc, idx, original_nodes, imports,
                 from_imports, nodes, sorted_nodes, first_out>>

\* write_sorted returns and main() ends
Finish ==
  /\ pc = "write"
  /\ pos > Len(sorted_nodes)
  /\ pc' = "done"
  /\ UNCHANGED <<source_ok, tree, run, exc, idx, original_nodes, imports,
                 from_imports, nodes, sorted_nodes, pos, pkey, out, first_out>>

\* main() is run again, with the output of the first run as infile
Rerun ==
  /\ pc = "done"
  /\ run = 1
  /\ run' = 2
  /\ first_out' = out
  /\ out' = <<>>
  /\ pc' = "parse"
  /\ nodes' = {}
  /\ sorted_nodes' = <<>>
  /\ pos' = 1
  /\ pkey' = None
  /\ UNCHANGED <<source_ok, tree, exc, idx, original_nodes, imports,
                 from_imports>>

Next ==
  \/ Parse
  \/ VisitImport
  \/ VisitImportFrom
  \/ VisitOther
  \/ NewNodes
  \/ SortNodes
  \/ WriteLine
  \/ Finish
  \/ Rerun

Spec == Init /\ [][Next]_vars

----------------------------------------------------------------------------
\* Vocabulary of the properties

\* The declarations of the output, read back from its text
Rendered == ParseModule(out)

\* The statements of the tree the collector records (visit_Import and
\* visit_ImportFrom keep a node iff its col_offset is 0)
Recorded(type) ==
  {tree[i] : i \in {j \in DOMAIN tree :
                      tree[j].type = type /\ tree[j].col_offset = 0}}

\* The (level, module) pairs of the recorded from-imports of the input, and
\* the (name, asname) pairs the input imports from one of them
InputFromKeys == {<<st.level, st.module>> : st \in Recorded("ImportFrom")}
InputFromNames(k) ==
  UNION {NamePairs(st.names) :
           st \in {t \in Recorded("ImportFrom") : <<t.level, t.module>> = k}}

\* The positions of the output's from-statements for a (level, module) pair
RenderedFor(k) ==
  {i \in DOMAIN Rendered :
     /\ Rendered[i].type = "ImportFrom"
     /\ <<Rendered[i].level, Rendered[i].module>> = k}

\* The (future-rank, stdlib-rank, thirdparty-rank) triple of a key
Triple(key) == <<key[1], key[2], key[3]>>

\* The module-name string of a declaration
ModuleName(st) ==
  IF st.type = "Import" THEN st.names[1].name ELSE Format(st.module)

KeysBuilt == pc \in {"sort", "write", "done"}

----------------------------------------------------------------------------
C2_Grouping ==
  pc = "done" =>
    /\ out # <<>> => (NonBlank(out[1]) /\ NonBlank(out[Len(out)]))
    /\ \A i \in 1..(Len(out) - 1) :
         /\ ~(out[i] = <<>> /\ out[i + 1] = <<>>)
         /\ (NonBlank(out[i]) /\ NonBlank(out[i + 1])) =>
              Triple(NodeSortKey(ParseLine(out[i])))
                = Triple(NodeSortKey(ParseLine(out[i + 1])))
    /\ \A i \in 2..(Len(out) - 1) :
         out[i] = <<>> =>
           Triple(NodeSortKey(ParseLine(out[i - 1])))
             # Triple(NodeSortKey(ParseLine(out[i + 1])))

\* C2 witness: a completed output with a group separator and with two
\* declarations of one group next to each other.
C2_Witness ==
  /\ run = 1
  /\ pc = "done"
  /\ \E i \in DOMAIN out : out[i] = <<>>
  /\ \E i \in 1..(Len(out) - 1) : NonBlank(out[i]) /\ NonBlank(out[i + 1])

\* C3 (as stated): the declarations built for rendering have pairwise
\* different keys (also those that differ only in level or alias), and in a
\* completed run a declaration precedes another iff its key is smaller.
C3_KeyTotalOrder ==
  /\ KeysBuilt =>
       \A e1, e2 \in nodes : e1[2] # e2[2] => e1[1] # e2[1]
  /\ pc = "done" =>
       \A i, j \in DOMAIN sorted_nodes :
         i < j <=> CmpKey(sorted_nodes[i][1], sorted_nodes[j][1]) = "lt"

\* C4 (as stated): in a completed output, declarations of one group are in
\* the order of their module-name strings, and between equal module names the
\* plain import comes before the from-import.
C4_NameBeforeKind ==
  pc = "done" =>
    \A i, j \in DOMAIN Rendered :
      (/\ i < j
       /\ Triple(NodeSortKey(Rendered[i])) = Triple(NodeSortKey(Rendered[j])))
      => LET c == CmpStr(ModuleName(Rendered[i]), ModuleName(Rendered[j]))
         IN  /\ c # "gt"
             /\ (c = "eq" /\ Rendered[i].type # Rendered[j].type)
                  => Rendered[i].type = "Import"

\* C5 (as stated): the key of every from-import with level > 0 has the rank
\* triple (1, 1, 1), whatever its module name is.
C5_RelativeIsOther ==
  KeysBuilt =>
    \A e \in nodes : e[2].level > 0 => Triple(e[1]) = <<1, 1, 1>>

\* C6 (as stated): a recorded from-import with level > 0 and no module does
\* not make key building abort the run, and when the run completes it is
\* rendered as a statement of its own in the last group.
C6_BareRelativeAccepted ==
  \A k \in DOMAIN from_imports :
    (k[1] > 0 /\ k[2] = None) =>
      /\ ~(pc = "aborted" /\ exc = "AttributeError")
      /\ pc = "done" =>
           /\ RenderedFor(k) # {}
           /\ \A i \in RenderedFor(k) :
                Triple(NodeSortKey(Rendered[i])) = <<1, 1, 1>>

\* C7: when the run on the output of a completed run ends, it has completed
\* and has written the same lines as the first run.
C7_Idempotent ==
  (run = 2 /\ pc \in {"done", "aborted"}) =>
    (pc = "done" /\ out = first_out)

\* C7 witness: a completed second run over an output that has a group
\* separator and an aliased name.
C7_Witness ==
  /\ run = 2
  /\ pc = "done"
  /\ \E i \in DOMAIN out : out[i] = <<>>
  /\ \E i \in DOMAIN sorted_nodes : sorted_nodes[i][2].names[1].asname # None

\* C8 (as stated): no failure of the search-path probe of is_thirdparty,
\* of whatever kind, ends the run.
C8_ProbeFailureNeverAborts ==
  pc = "aborted" => exc \notin {"ImportError", "OSError"}

\* C9: a run that aborts has written nothing, and a line is written only
\* once all keys are built and the sequence is sorted.
C9_NoPartialOutput ==
  /\ pc = "aborted" => out = <<>>
  /\ out # <<>> => pc \in {"write", "done"}

\* C9 witness: a first run that aborted while comparing the keys of two or
\* more declarations.
C9_Witness ==
  /\ run = 1
  /\ pc = "aborted"
  /\ exc = "TypeError"
  /\ Cardinality(nodes) >= 2

\* C10 (as stated): of the import statements the visitor has reached, exactly
\* the direct children of the module root are recorded.
C10_RootChildrenOnly ==
  pc = "visit" =>
    \A i \in 1..(idx - 1) :
      tree[i].type \in {"Import", "ImportFrom"} =>
        (tree[i].depth = 0
           <=> \E j \in DOMAIN original_nodes : original_nodes[j] = tree[i])

====
